---------------------------- MODULE Spec2Model ----------------------------
(***************************************************************************)
(* marp-lens: incremental vector indexing of slide documents.              *)
(*                                                                         *)
(* The model covers the store (SlideDatabase), the change detector         *)
(* (computeFileHash), the parser's slide numbering, the index command's    *)
(* four phases and the watch command's per-file handler.                   *)
(***************************************************************************)
EXTENDS Integers, Sequences, FiniteSets, TLC

VARIABLES
    fs,          \* the watched directory: relative path -> bytes of the file
    db,          \* the SQLite store: files, slides, slide_embeddings, sequences
    last,        \* the last direct call on the store, its result and the store before it
    ix,          \* the index command: its position and its locals
    pre,         \* the store as it was when the current index run began
    fresh,       \* paths the last index run covered, if it completed, and nobody wrote since
    options,     \* watch: the options of the session (withImages)
    processing,  \* watch: the in-flight set of absolute paths
    passes,      \* watch: the indexFile invocations suspended at an await
    events,      \* watch: chokidar events not yet delivered, oldest first
    call         \* the embedBatch call in progress: its position and its locals

watchVars == <<options, processing, passes, events>>
indexVars == <<ix, pre, fresh>>
vars == <<fs, db, last, ix, pre, fresh, options, processing, passes, events, call>>

-----------------------------------------------------------------------------
(* Bounds of the model *)

MaxSlideSeq == 3      \* highest slide id the store hands out
MaxFileSeq == 2       \* highest file id the store hands out
MaxEvents == 1        \* undelivered watcher events
MaxChunks == 4        \* chunks of the longest list given to embedBatch
MaxImages == 3        \* paths of the longest list given to describeImages

(* Program constants *)

EMBEDDING_DIMENSIONS == 768
MODEL_DIMENSIONS == 3072

\* The markdown files of the directory, in the order glob lists them.
PathSeq == <<"x.md", "y.md">>
Paths == {PathSeq[i] : i \in 1..Len(PathSeq)}

\* A section of a document: blank, a text slide, a slide that only shows a
\* local image, and a front matter the YAML parser rejects.
Blank == ""
TextSection == "a"
ImageSection == "b"
BadYaml == "!"
Sections == {Blank, TextSection, ImageSection}

Image == "pic.png"

\* The byte contents a file can have: nothing but a blank section, one
\* slide, an image slide and a text slide around a blank section, and a
\* front matter that does not parse.
Contents ==
    { <<Blank>>,
      <<TextSection>>,
      <<ImageSection, Blank, TextSection>>,
      <<BadYaml>> }

-----------------------------------------------------------------------------
(* utils/file-hash *)

SectionCode(s) ==
    CASE s = Blank -> 1
      [] s = TextSection -> 2
      [] s = ImageSection -> 3
      [] OTHER -> 4

RECURSIVE Digest(_, _)
Digest(bytes, acc) ==
    IF bytes = <<>> THEN acc
    ELSE Digest(Tail(bytes), acc * 5 + SectionCode(Head(bytes)))

\* md5 of the file's bytes: a digest that tells any two contents of the model apart.
computeFileHash(bytes) == Digest(bytes, 0)

-----------------------------------------------------------------------------
(* core/parser *)

ParseThrows(bytes) == bytes # <<>> /\ Head(bytes) = BadYaml

IsSlide(s) == s # Blank

slideHeading(s) == IF s = TextSection THEN s ELSE ""

extractImagePaths(s) == IF s = ImageSection THEN {Image} ELSE {}

\* parseSlide that drops the index it is given
parseSlideUnnumbered(s, index) ==
    [index |-> 0, heading |-> slideHeading(s), content |-> s,
     images |-> extractImagePaths(s)]

parseSlide(s, index) ==
    [index |-> index, heading |-> slideHeading(s), content |-> s,
     images |-> extractImagePaths(s)]

\* split on ---, drop the blank sections, number what is left from 0
parseMarkdownContent(bytes) ==
    LET slideContents == SelectSeq(bytes, IsSlide)
        slides == [i \in 1..Len(slideContents) |-> parseSlide(slideContents[i], i - 1)]
    IN  [slides |-> slides,
         title |-> IF Len(slides) > 0 /\ slides[1].heading # ""
                   THEN slides[1].heading ELSE "Untitled"]

-----------------------------------------------------------------------------
(* core/gemini *)

\* The vector the provider returns for a text, with the length it has.
Vector(text, dim) == [dim |-> dim, of |-> text]

\* A missing element of the embeddings array (undefined).
NoVector == [dim |-> 0, of |-> ""]

Description == "d"

\* A search text that is no slide's text.
QueryText == "q"

\* Maximum batch size for batchEmbedContents
EMBEDDING_BATCH_SIZE == 250

\* Number of parallel batch requests
PARALLEL_BATCHES == 3

Min(a, b) == IF a <= b THEN a ELSE b

\* texts.slice(from, to), from and to counted from 0
Slice(texts, from, to) ==
    [k \in 1..(Min(to, Len(texts)) - from) |-> texts[from + k]]

\* chunks: { startIndex, texts } for i = 0, EMBEDDING_BATCH_SIZE, ...
RECURSIVE Chunks(_, _)
Chunks(texts, i) ==
    IF i >= Len(texts) THEN <<>>
    ELSE <<[startIndex |-> i, texts |-> Slice(texts, i, i + EMBEDDING_BATCH_SIZE)]>>
            \o Chunks(texts, i + EMBEDDING_BATCH_SIZE)

\* every chunk from i on, with no limit on the number
AllRemainingChunks(chunks, i) == {j \in 1..Len(chunks) : i < j}

\* The chunk numbers of chunks.slice(i, i + PARALLEL_BATCHES)
ParallelChunks(chunks, i) == {j \in 1..Len(chunks) : i < j /\ j <= i + PARALLEL_BATCHES}

\* What batchEmbedContents answers for a chunk: one embedding per request, in order.
batchEmbedContents(chunk) ==
    [k \in 1..Len(chunk.texts) |-> Vector(chunk.texts[k], EMBEDDING_DIMENSIONS)]

\* The responses taken in the order in which the requests completed.
InCompletionOrder(chunks, i, arrived) ==
    [j \in 1..Len(arrived) |-> batchEmbedContents(chunks[arrived[j]])]

\* await Promise.all(parallelChunks.map(...)): the responses in the order of
\* parallelChunks, whatever the order in which the requests completed.
PromiseAll(chunks, i, arrived) ==
    [j \in 1..Cardinality(ParallelChunks(chunks, i)) |-> batchEmbedContents(chunks[i + j])]

\* results[chunk.startIndex + k] = response.embeddings[k] for every response j
\* of the wave and every k.
StoreResults(results, chunks, i, responses) ==
    [x \in DOMAIN results |->
        IF \E j \in DOMAIN responses :
              /\ chunks[i + j].startIndex < x
              /\ x <= chunks[i + j].startIndex + Len(responses[j])
        THEN LET r == CHOOSE j \in DOMAIN responses :
                        /\ chunks[i + j].startIndex < x
                        /\ x <= chunks[i + j].startIndex + Len(responses[j])
             IN  responses[r][x - chunks[i + r].startIndex]
        ELSE results[x]]

\* descriptions.set(imagePath, description)
MapSet(m, k, v) == [x \in DOMAIN m \cup {k} |-> IF x = k THEN v ELSE m[x]]

\* The catch of describeImages without its descriptions.set(imagePath, "")
CatchSetsNothing(descriptions, imagePath) == descriptions

\* catch (error) { descriptions.set(imagePath, ""); }
CatchSetsEmpty(descriptions, imagePath) == MapSet(descriptions, imagePath, "")

IdleCall == [pc |-> "idle", texts |-> <<>>, chunks |-> <<>>, i |-> 0, pending |-> {},
             arrived |-> <<>>, results |-> <<>>,
             imagePaths |-> <<>>, descriptions |-> <<>>, outcomes |-> <<>>]

-----------------------------------------------------------------------------
(* core/database *)

EmptyDb == [files |-> {}, slides |-> {}, slide_embeddings |-> {},
            fileSeq |-> 0, slideSeq |-> 0]

getFileByPath(d, path) == {f \in d.files : f.path = path}

SlidesOfFile(d, fileId) == {s \in d.slides : s.fileId = fileId}

\* deleteFileSlides with the WHERE clauses left out
deleteEverySlide(d, fileId) ==
    [d EXCEPT !.slide_embeddings = {}, !.slides = {}]

deleteFileSlidesNoVectors(d, fileId) ==
    [d EXCEPT !.slides = {s \in @ : s.fileId # fileId}]

deleteFileSlides(d, fileId) ==
    LET slideIds == {s.id : s \in SlidesOfFile(d, fileId)}
    IN  [d EXCEPT !.slide_embeddings = {e \in @ : e.rowid \notin slideIds},
                  !.slides = {s \in @ : s.fileId # fileId}]

\* upsertFile without the call of deleteFileSlides
upsertFileKeepSlides(d, file) ==
    LET existing == getFileByPath(d, file.path)
    IN  IF existing # {}
        THEN LET ex == CHOOSE f \in existing : TRUE
             IN  [db |-> [d EXCEPT !.files = (@ \ {ex}) \cup
                            {[ex EXCEPT !.hash = file.hash, !.title = file.title]}],
                  id |-> ex.id]
        ELSE [db |-> [d EXCEPT !.files = @ \cup
                         {[id |-> d.fileSeq + 1, path |-> file.path,
                           hash |-> file.hash, title |-> file.title]},
                       !.fileSeq = @ + 1],
              id |-> d.fileSeq + 1]

\* file: [path, hash, title]; the result is the store and the returned id
upsertFile(d, file) ==
    LET existing == getFileByPath(d, file.path)
    IN  IF existing # {}
        THEN LET ex == CHOOSE f \in existing : TRUE
                 d1 == deleteFileSlides(d, ex.id)
             IN  [db |-> [d1 EXCEPT !.files = (@ \ {ex}) \cup
                             {[ex EXCEPT !.hash = file.hash, !.title = file.title]}],
                  id |-> ex.id]
        ELSE [db |-> [d EXCEPT !.files = @ \cup
                         {[id |-> d.fileSeq + 1, path |-> file.path,
                           hash |-> file.hash, title |-> file.title]},
                       !.fileSeq = @ + 1],
              id |-> d.fileSeq + 1]

deleteFileByPath(d, path) ==
    LET existing == getFileByPath(d, path)
    IN  IF existing = {}
        THEN [db |-> d, ret |-> FALSE]
        ELSE LET ex == CHOOSE f \in existing : TRUE
             IN  [db |-> [deleteFileSlides(d, ex.id) EXCEPT !.files = @ \ {ex}],
                  ret |-> TRUE]

\* insertSlide on a table without AUTOINCREMENT: the id is one more than the
\* largest id in the table.
insertSlideMaxRowid(d, slide) ==
    IF \/ \E s \in d.slides : s.fileId = slide.fileId /\ s.slideIndex = slide.slideIndex
       \/ ~ \E f \in d.files : f.id = slide.fileId
    THEN [db |-> d, ok |-> FALSE, id |-> -1]
    ELSE LET id == Cardinality({i \in 1..d.slideSeq : \E s \in d.slides : s.id >= i}) + 1
         IN  [db |-> [d EXCEPT !.slides = @ \cup
                         {[id |-> id, fileId |-> slide.fileId,
                           slideIndex |-> slide.slideIndex, content |-> slide.content,
                           imageDescriptions |-> slide.imageDescriptions]},
                       !.slideSeq = @ + 1],
              ok |-> TRUE, id |-> id]

\* slide: [fileId, slideIndex, content, imageDescriptions].  The INSERT is
\* rejected by UNIQUE(file_id, slide_index) and by the foreign key on file_id.
insertSlide(d, slide) ==
    IF \/ \E s \in d.slides : s.fileId = slide.fileId /\ s.slideIndex = slide.slideIndex
       \/ ~ \E f \in d.files : f.id = slide.fileId
    THEN [db |-> d, ok |-> FALSE, id |-> -1]
    ELSE [db |-> [d EXCEPT !.slides = @ \cup
                     {[id |-> d.slideSeq + 1, fileId |-> slide.fileId,
                       slideIndex |-> slide.slideIndex, content |-> slide.content,
                       imageDescriptions |-> slide.imageDescriptions]},
                   !.slideSeq = @ + 1],
          ok |-> TRUE, id |-> d.slideSeq + 1]

\* A JavaScript number: whole + frac/10 when finite, or NaN, or Infinity.
Num(n) == [kind |-> "finite", whole |-> n, frac |-> 0]

NaN == [kind |-> "NaN", whole |-> 0, frac |-> 0]

NumberIsInteger(x) == x.kind = "finite" /\ x.frac = 0

\* The same INSERT with the identifier truncated to a rowid and its sign dropped.
insertEmbeddingCoercing(d, slideId, embedding) ==
    LET rowid == IF slideId.whole < 0 THEN 0 - slideId.whole ELSE slideId.whole
    IN  IF \/ embedding.dim # EMBEDDING_DIMENSIONS
           \/ \E e \in d.slide_embeddings : e.rowid = rowid
        THEN [db |-> d, ok |-> FALSE]
        ELSE [db |-> [d EXCEPT !.slide_embeddings = @ \cup
                         {[rowid |-> rowid, embedding |-> embedding]}],
              ok |-> TRUE]

\* slideId is a JavaScript number.  Throws on an id that is not an integer or
\* is negative, on an embedding that is missing or not of the table's
\* dimension, and on a rowid that already holds a vector.
insertEmbedding(d, slideId, embedding) ==
    IF \/ ~NumberIsInteger(slideId)
       \/ slideId.whole < 0
       \/ embedding.dim # EMBEDDING_DIMENSIONS
       \/ \E e \in d.slide_embeddings : e.rowid = slideId.whole
    THEN [db |-> d, ok |-> FALSE]
    ELSE [db |-> [d EXCEPT !.slide_embeddings = @ \cup
                     {[rowid |-> slideId.whole, embedding |-> embedding]}],
          ok |-> TRUE]

insertSlideOnly(d, slide, embedding) ==
    insertSlide(d, slide)

insertSlideWithEmbedding(d, slide, embedding) ==
    LET r1 == insertSlide(d, slide)
    IN  IF ~r1.ok THEN r1
        ELSE LET r2 == insertEmbedding(r1.db, Num(r1.id), embedding)
             IN  [db |-> r2.db, ok |-> r2.ok, id |-> IF r2.ok THEN r1.id ELSE -1]

\* The direction of the unit vector embedded for a text, in steps of 60 degrees.
Angle(text) ==
    IF text = TextSection THEN 0
    ELSE IF text = ImageSection THEN 1
    ELSE IF text = QueryText THEN 2
    ELSE 3

\* vec_distance_cosine, in tenths: 1 - cos of the angle between the vectors.
vec_distance_cosine(a, b) ==
    LET diff == IF Angle(a.of) >= Angle(b.of) THEN Angle(a.of) - Angle(b.of)
                ELSE Angle(b.of) - Angle(a.of)
    IN  IF diff = 0 THEN 0 ELSE IF diff = 1 THEN 5 ELSE IF diff = 2 THEN 15 ELSE 20

\* FROM slide_embeddings e JOIN slides s ON e.rowid = s.id JOIN files f ON s.file_id = f.id
JoinedRows(d, queryEmbedding) ==
    {[slideId |-> sl.id, slideIndex |-> sl.slideIndex, content |-> sl.content,
      filePath |-> f.path, fileTitle |-> f.title,
      distance |-> vec_distance_cosine(e.embedding, queryEmbedding)] :
        <<e, sl, f>> \in {t \in d.slide_embeddings \X d.slides \X d.files :
                            t[1].rowid = t[2].id /\ t[2].fileId = t[3].id}}

\* ORDER BY distance ASC: rows of equal distance come in any order.
OrderByDistanceAsc(rows) ==
    {seq \in [1..Cardinality(rows) -> rows] :
        /\ \A i, j \in DOMAIN seq : i # j => seq[i] # seq[j]
        /\ \A i, j \in DOMAIN seq : i < j => seq[i].distance <= seq[j].distance}

\* LIMIT n: a negative n is no limit.
Limit(seq, n) ==
    IF n < 0 \/ n >= Len(seq) THEN seq ELSE SubSeq(seq, 1, n)

\* The result arrays searchSimilar can return; similarity is 1 - distance (tenths).
searchSimilar(d, queryEmbedding, limit) ==
    {[i \in DOMAIN rows |->
        [slideId |-> rows[i].slideId, filePath |-> rows[i].filePath,
         fileTitle |-> rows[i].fileTitle, slideIndex |-> rows[i].slideIndex,
         content |-> rows[i].content, similarity |-> 10 - rows[i].distance]] :
      rows \in {Limit(seq, limit) : seq \in OrderByDistanceAsc(JoinedRows(d, queryEmbedding))}}

\* SQLite folds ASCII upper case for LIKE; "X" is the one upper-case letter here.
Fold(c) == IF c = "X" THEN "x" ELSE c

\* str LIKE pat, both sequences of characters: % matches any run of
\* characters, _ any one character, every other character itself or its
\* other case.
RECURSIVE Like(_, _)
Like(pat, str) ==
    IF pat = <<>> THEN str = <<>>
    ELSE IF Head(pat) = "%"
    THEN Like(Tail(pat), str) \/ (str # <<>> /\ Like(pat, Tail(str)))
    ELSE /\ str # <<>>
         /\ Head(pat) = "_" \/ Fold(Head(pat)) = Fold(Head(str))
         /\ Like(Tail(pat), Tail(str))

\* FROM slides s JOIN files f ON s.file_id = f.id WHERE s.slide_index = ?
SlidesAtIndex(d, slideIndex) ==
    {[slide |-> sl, file_path |-> f.path] :
        <<sl, f>> \in {t \in d.slides \X d.files :
                        t[1].fileId = t[2].id /\ t[1].slideIndex = slideIndex}}

\* The rows getSlideByPathAndIndex can return, <<>> standing for null: a row
\* of the exact match if there is one, else a row of the LIKE match.
getSlideByPathAndIndex(d, filePath, slideIndex) ==
    LET exact == {r \in SlidesAtIndex(d, slideIndex) : r.file_path = filePath}
        partial == {r \in SlidesAtIndex(d, slideIndex) :
                       Like(<<"%">> \o filePath, r.file_path)}
        row == IF exact # {} THEN exact ELSE partial
    IN  IF row = {} THEN {<<>>} ELSE {<<r.slide>> : r \in row}

\* clear deleting nothing
clearNothing(d) == d

\* clear without the DELETE FROM slide_embeddings
clearKeepVectors(d) == [d EXCEPT !.slides = {}, !.files = {}]

clear(d) == [d EXCEPT !.slide_embeddings = {}, !.slides = {}, !.files = {}]

\* The statements of the deletion paths, one store after each statement.

\* DELETE FROM slide_embeddings WHERE rowid = ?, for each id in turn
RECURSIVE DeleteEmbeddingsById(_, _)
DeleteEmbeddingsById(d, slideIds) ==
    IF slideIds = {} THEN <<>>
    ELSE LET id == CHOOSE i \in slideIds : \A j \in slideIds : i <= j
             d1 == [d EXCEPT !.slide_embeddings = {e \in @ : e.rowid # id}]
         IN  <<d1>> \o DeleteEmbeddingsById(d1, slideIds \ {id})

LastStore(d, stores) == IF stores = <<>> THEN d ELSE stores[Len(stores)]

\* deleteFileSlides with the DELETE FROM slides run first
deleteFileSlidesSlidesFirst(d, fileId) ==
    LET slideIds == {s.id : s \in SlidesOfFile(d, fileId)}
        d1 == [d EXCEPT !.slides = {s \in @ : s.fileId # fileId}]
    IN  <<d1>> \o DeleteEmbeddingsById(d1, slideIds)

\* deleteFileSlides: the vectors one by one, then the slides
deleteFileSlidesStatements(d, fileId) ==
    LET slideIds == {s.id : s \in SlidesOfFile(d, fileId)}
        vectors == DeleteEmbeddingsById(d, slideIds)
    IN  vectors \o <<[LastStore(d, vectors) EXCEPT !.slides = {s \in @ : s.fileId # fileId}]>>

\* upsertFile: deleteFileSlides and the UPDATE, or the INSERT
upsertFileStatements(d, file) ==
    LET existing == getFileByPath(d, file.path)
    IN  IF existing # {}
        THEN LET ex == CHOOSE f \in existing : TRUE
                 deleted == deleteFileSlidesStatements(d, ex.id)
             IN  deleted \o
                   <<[LastStore(d, deleted) EXCEPT !.files = (@ \ {ex}) \cup
                        {[ex EXCEPT !.hash = file.hash, !.title = file.title]}]>>
        ELSE <<upsertFile(d, file).db>>

\* deleteFileByPath: deleteFileSlides and the DELETE FROM files
deleteFileByPathStatements(d, path) ==
    LET existing == getFileByPath(d, path)
    IN  IF existing = {} THEN <<>>
        ELSE LET ex == CHOOSE f \in existing : TRUE
                 deleted == deleteFileSlidesStatements(d, ex.id)
             IN  deleted \o <<[LastStore(d, deleted) EXCEPT !.files = @ \ {ex}]>>

\* clear: the three DELETEs in the order of the script
clearStatements(d) ==
    LET d1 == [d EXCEPT !.slide_embeddings = {}]
        d2 == [d1 EXCEPT !.slides = {}]
    IN  <<d1, d2, [d2 EXCEPT !.files = {}]>>

getStats(d) ==
    [totalFiles |-> Cardinality(d.files), totalSlides |-> Cardinality(d.slides),
     totalEmbeddings |-> Cardinality(d.slide_embeddings)]

-----------------------------------------------------------------------------
(* commands/index-cmd *)

MapGet(m, k) == IF k \in DOMAIN m THEN m[k] ELSE ""

\* slide.images.map(get description).filter(Boolean).join(...)
SlideImageDescs(slide, imageDescriptions) ==
    IF slide.images = {} THEN "" ELSE MapGet(imageDescriptions, Image)

\* [heading, textOnly, speakerNotes, imageDescs].filter(Boolean).join(" ") || "(empty slide)"
CombinedText(slide, imageDescriptions) ==
    LET parts == slide.heading \o SlideImageDescs(slide, imageDescriptions)
    IN  IF parts = "" THEN "(empty slide)" ELSE parts

DocImages(doc) == UNION {doc.slides[i].images : i \in 1..Len(doc.slides)}

IdleIx ==
    [pc |-> "idle", rebuild |-> FALSE, withImages |-> FALSE, files |-> <<>>,
     fileDataList |-> <<>>, allImagePaths |-> <<>>, skippedFiles |-> {},
     parsed |-> {}, slideTextEntries |-> <<>>, embeddings |-> <<>>,
     fileIndex |-> 0, totalSlides |-> 0, threw |-> FALSE, rejected |-> FALSE]

\* glob("**/*.md") lists the files of the directory; --file names one.
AllFiles == "*"
Enumerate(target) ==
    IF target = AllFiles
    THEN LET Present(p) == p \in DOMAIN fs IN SelectSeq(PathSeq, Present)
    ELSE <<target>>

ImageList(imgs) == IF imgs = {} THEN <<>> ELSE <<Image>>

SkipAlways(existing, hash, rebuild) == existing # {}

SkipNever(existing, hash, rebuild) == FALSE

\* existing && existing.hash === hash && !options.rebuild
SkipUnchanged(existing, hash, rebuild) ==
    /\ existing # {}
    /\ \A f \in existing : f.hash = hash
    /\ ~rebuild

\* Phase 1, the loop over the enumerated files.
RECURSIVE Phase1(_, _, _, _, _)
Phase1(d, files, rebuild, withImages, acc) ==
    IF files = <<>> THEN acc
    ELSE
      LET relativePath == Head(files)
          bytes == fs[relativePath]
          hash == computeFileHash(bytes)
          existing == getFileByPath(d, relativePath)
          rest == Tail(files)
      IN  IF SkipUnchanged(existing, hash, rebuild)
          THEN Phase1(d, rest, rebuild, withImages,
                      [acc EXCEPT !.skippedFiles = @ \cup {relativePath}])
          ELSE
            LET acc1 == [acc EXCEPT !.parsed = @ \cup {relativePath}]
                doc == parseMarkdownContent(bytes)
                imgs == IF withImages THEN DocImages(doc) ELSE {}
            IN  IF ParseThrows(bytes) \/ Len(doc.slides) = 0
                THEN Phase1(d, rest, rebuild, withImages, acc1)
                ELSE Phase1(d, rest, rebuild, withImages,
                       [acc1 EXCEPT
                          !.fileDataList = Append(@,
                             [relativePath |-> relativePath, hash |-> hash, doc |-> doc,
                              imageDescriptions |-> [k \in imgs |-> ""]]),
                          !.allImagePaths = @ \o ImageList(imgs)])


\* Phase 3: one text per slide of every processed document, in order.
RECURSIVE BuildEntries(_, _)
BuildEntries(fileDataList, fileIndex) ==
    IF fileIndex > Len(fileDataList) THEN <<>>
    ELSE LET fd == fileDataList[fileIndex]
             own == [k \in 1..Len(fd.doc.slides) |->
                       [fileIndex |-> fileIndex,
                        slideIndex |-> fd.doc.slides[k].index,
                        text |-> CombinedText(fd.doc.slides[k], fd.imageDescriptions)]]
         IN  own \o BuildEntries(fileDataList, fileIndex + 1)

\* findIndex with the test on e.fileIndex alone
FindFirstOfFile(entries, fileIndex, slideIndex) ==
    LET hits == {i \in 1..Len(entries) : entries[i].fileIndex = fileIndex}
    IN  IF hits = {} THEN 0 ELSE CHOOSE i \in hits : \A j \in hits : i <= j

\* slideTextEntries.findIndex(...): the first matching position, 0 when none
FindIndex(entries, fileIndex, slideIndex) ==
    LET hits == {i \in 1..Len(entries) :
                   entries[i].fileIndex = fileIndex /\ entries[i].slideIndex = slideIndex}
    IN  IF hits = {} THEN 0 ELSE CHOOSE i \in hits : \A j \in hits : i <= j

ElementAt(embeddings, i) ==
    IF i \in 1..Len(embeddings) THEN embeddings[i] ELSE NoVector

\* The inserts of one document, in slide order, up to the first that throws.
RECURSIVE InsertSlides(_, _, _, _, _)
InsertSlides(d, fileId, fd, vectorOf, k) ==
    IF k > Len(fd.doc.slides) THEN [db |-> d, ok |-> TRUE]
    ELSE LET slide == fd.doc.slides[k]
             r == insertSlideWithEmbedding(d,
                    [fileId |-> fileId, slideIndex |-> slide.index,
                     content |-> slide.content,
                     imageDescriptions |-> SlideImageDescs(slide, fd.imageDescriptions)],
                    vectorOf[k])
         IN  IF ~r.ok THEN [db |-> r.db, ok |-> FALSE]
             ELSE InsertSlides(r.db, fileId, fd, vectorOf, k + 1)

PersistDocumentSkipFirst(d, fd, vectorOf) ==
    LET up == upsertFile(d, [path |-> fd.relativePath, hash |-> fd.hash,
                             title |-> fd.doc.title])
    IN  InsertSlides(up.db, up.id, fd, vectorOf, 2)

\* upsertFile, then every slide with its vector
PersistDocument(d, fd, vectorOf) ==
    LET up == upsertFile(d, [path |-> fd.relativePath, hash |-> fd.hash,
                             title |-> fd.doc.title])
    IN  InsertSlides(up.db, up.id, fd, vectorOf, 1)

\* What the provider answers to embedBatch(texts).
EmbedOutcomes == {"ok", "dimension", "short"}
EmbedResponse(texts, outcome) ==
    [i \in 1..Len(texts) |->
       CASE outcome = "ok" -> Vector(texts[i], EMBEDDING_DIMENSIONS)
         [] outcome = "dimension" -> Vector(texts[i], MODEL_DIMENSIONS)
         [] OTHER -> IF i = Len(texts) THEN NoVector
                     ELSE Vector(texts[i], EMBEDDING_DIMENSIONS)]

Range(seq) == {seq[i] : i \in 1..Len(seq)}

IndexIdle == ix.pc = "idle"

\* A directory whose name ends in .md: glob lists it, readFileSync throws on it.
Directory == <<"/">>

\* computeFileHash(filePath) throws: the file is missing or cannot be read.
\* The call is outside the try of the phase 1 loop.
HashThrows(p) == IF p \in DOMAIN fs THEN fs[p] = Directory ELSE TRUE

\* Lines 26-105 and 130-157: clear on rebuild, enumerate, phase 1, and
\* either return, or run up to the first remote call.
IndexStart(rebuild, withImages, target) ==
    /\ IndexIdle
    /\ LET d0 == IF rebuild THEN clear(db) ELSE db
           files == Enumerate(target)
           start == [IdleIx EXCEPT !.rebuild = rebuild, !.withImages = withImages,
                                   !.files = files]
       IN  /\ db' = d0
           /\ pre' = db
           /\ IF \E i \in 1..Len(files) : HashThrows(files[i])
              THEN ix' = [start EXCEPT !.pc = "aborted"]
              ELSE LET acc == Phase1(d0, files, rebuild, withImages, start)
                   IN  /\ db.slideSeq + Len(BuildEntries(acc.fileDataList, 1)) <= MaxSlideSeq
                       /\ ix' = IF acc.fileDataList = <<>>
                             THEN [acc EXCEPT !.pc = "done"]
                             ELSE IF withImages /\ acc.allImagePaths # <<>>
                             THEN [acc EXCEPT !.pc = "phase2"]
                             ELSE [acc EXCEPT !.pc = "phase3",
                                     !.slideTextEntries = BuildEntries(acc.fileDataList, 1)]
    /\ UNCHANGED <<fs, last, fresh, watchVars, call>>

\* Lines 111-157: describeImages resolves (a failed description is ""), the
\* descriptions are distributed and the texts are built.
DescribeDone(desc) ==
    /\ ix.pc = "phase2"
    /\ LET descriptions == [k \in Range(ix.allImagePaths) |-> desc]
           fdl == [i \in 1..Len(ix.fileDataList) |->
                     [ix.fileDataList[i] EXCEPT !.imageDescriptions =
                        [k \in DOMAIN @ |-> MapGet(descriptions, k)]]]
       IN  ix' = [ix EXCEPT !.pc = "phase3", !.fileDataList = fdl,
                            !.slideTextEntries = BuildEntries(fdl, 1)]
    /\ UNCHANGED <<fs, db, last, pre, fresh, watchVars, call>>

\* Lines 160-169: embedBatch resolves.
EmbedDone(outcome) ==
    /\ ix.pc = "phase3"
    /\ LET allTexts == [i \in 1..Len(ix.slideTextEntries) |-> ix.slideTextEntries[i].text]
       IN  ix' = [ix EXCEPT !.pc = "phase4", !.fileIndex = 1,
                            !.embeddings = EmbedResponse(allTexts, outcome)]
    /\ UNCHANGED <<fs, db, last, pre, fresh, watchVars, call>>

\* The rejection caught and the run going on to phase 4 with no embeddings.
RejectionSwallowed(x) ==
    [x EXCEPT !.rejected = TRUE, !.pc = "phase4", !.fileIndex = 1]

\* await gemini.embedBatch(...) throws in indexCommand, which has no catch:
\* the command ends there.
RejectionPropagates(x) ==
    [x EXCEPT !.rejected = TRUE, !.pc = "aborted"]

\* Lines 160-163: a chunk's request failed and embedBatch rejects.
EmbedRejects ==
    /\ ix.pc = "phase3"
    /\ ix' = RejectionPropagates(ix)
    /\ UNCHANGED <<fs, db, last, pre, fresh, watchVars, call>>

\* Lines 171-209, one turn of the loop: one document's upsert and inserts.
PersistDoc ==
    /\ ix.pc = "phase4"
    /\ LET fd == ix.fileDataList[ix.fileIndex]
           vectorOf == [k \in 1..Len(fd.doc.slides) |->
                          ElementAt(ix.embeddings,
                             FindIndex(ix.slideTextEntries, ix.fileIndex,
                                       fd.doc.slides[k].index))]
           r == PersistDocument(db, fd, vectorOf)
       IN  /\ db' = r.db
           /\ ix' = IF ~r.ok THEN [ix EXCEPT !.pc = "aborted", !.threw = TRUE]
                     ELSE IF ix.fileIndex = Len(ix.fileDataList)
                     THEN [ix EXCEPT !.pc = "done", !.fileIndex = @ + 1,
                                     !.totalSlides = @ + Len(fd.doc.slides)]
                     ELSE [ix EXCEPT !.fileIndex = @ + 1,
                                     !.totalSlides = @ + Len(fd.doc.slides)]
    /\ UNCHANGED <<fs, last, pre, fresh, watchVars, call>>

\* The awaited remote call rejects, or the process is interrupted.
IndexAbort ==
    /\ ix.pc \in {"phase2", "phase3", "phase4"}
    /\ ix' = [ix EXCEPT !.pc = "aborted"]
    /\ UNCHANGED <<fs, db, last, pre, fresh, watchVars, call>>

\* The command has ended; the next one may start.
IndexExit ==
    /\ ix.pc \in {"done", "aborted"}
    /\ ix' = IdleIx
    /\ pre' = EmptyDb
    /\ fresh' = IF ix.pc = "done" THEN Range(ix.files) ELSE {}
    /\ UNCHANGED <<fs, db, last, watchVars, call>>

\* Somebody writes or removes a file of the directory between two runs.
WriteFile(p, bytes) ==
    /\ IndexIdle
    /\ IF p \in DOMAIN fs THEN fs[p] # bytes ELSE TRUE
    /\ fs' = [q \in DOMAIN fs \cup {p} |-> IF q = p THEN bytes ELSE fs[q]]
    /\ fresh' = fresh \ {p}
    /\ UNCHANGED <<db, last, ix, pre, watchVars, call>>

RemoveFile(p) ==
    /\ IndexIdle
    /\ p \in DOMAIN fs
    /\ fs' = [q \in DOMAIN fs \ {p} |-> fs[q]]
    /\ fresh' = fresh \ {p}
    /\ UNCHANGED <<db, last, ix, pre, watchVars, call>>

-----------------------------------------------------------------------------

\* The directory as the command finds it: any files with any contents.
Directories == UNION {[S -> Contents] : S \in SUBSET Paths}

NoFile == [path |-> "", hash |-> 0, title |-> ""]

NoCall == [op |-> "none", path |-> "", ok |-> TRUE, ret |-> FALSE, id |-> -1,
           arg |-> Num(0), file |-> NoFile, query |-> NoVector, rows |-> <<>>,
           before |-> EmptyDb]

Init ==
    /\ fs \in Directories
    /\ db = EmptyDb
    /\ last = NoCall
    /\ ix = IdleIx
    /\ pre = EmptyDb
    /\ fresh = {}
    /\ options = [withImages |-> FALSE]
    /\ processing = {}
    /\ passes = {}
    /\ events = <<>>
    /\ call = IdleCall

\* The store alone: no directory is involved.
InitDb ==
    /\ fs = <<>>
    /\ db = EmptyDb
    /\ last = NoCall
    /\ ix = IdleIx
    /\ pre = EmptyDb
    /\ fresh = {}
    /\ options = [withImages |-> FALSE]
    /\ processing = {}
    /\ passes = {}
    /\ events = <<>>
    /\ call = IdleCall

NextIndex ==
    \/ \E rebuild \in BOOLEAN, withImages \in BOOLEAN, target \in Paths \cup {AllFiles} :
          IndexStart(rebuild, withImages, target)
    \/ \E desc \in {Description, ""} : DescribeDone(desc)
    \/ \E outcome \in EmbedOutcomes : EmbedDone(outcome)
    \/ EmbedRejects
    \/ PersistDoc
    \/ IndexAbort
    \/ IndexExit
    \/ \E p \in Paths, bytes \in Contents : WriteFile(p, bytes)
    \/ \E p \in Paths : RemoveFile(p)

SpecIndex == Init /\ [][NextIndex]_vars

\* Documents with slides that reference the image of their directory.
ImageContents ==
    { <<TextSection>>,
      <<ImageSection>>,
      <<ImageSection, Blank, TextSection>> }

\* A directory of such documents, and an empty store.
InitImages ==
    /\ fs \in UNION {[S -> ImageContents] : S \in SUBSET Paths}
    /\ db = EmptyDb
    /\ last = NoCall
    /\ ix = IdleIx
    /\ pre = EmptyDb
    /\ fresh = {}
    /\ options = [withImages |-> FALSE]
    /\ processing = {}
    /\ passes = {}
    /\ events = <<>>
    /\ call = IdleCall

\* Index runs over that directory, every remote call answering.
NextImages ==
    \/ \E rebuild \in BOOLEAN, withImages \in BOOLEAN, target \in Paths \cup {AllFiles} :
          IndexStart(rebuild, withImages, target)
    \/ \E desc \in {Description, ""} : DescribeDone(desc)
    \/ EmbedDone("ok")
    \/ PersistDoc
    \/ IndexExit
    \/ \E p \in Paths : RemoveFile(p)

SpecImages == InitImages /\ [][NextImages]_vars

\* Entries of the directory the phase 1 loop fails on, and one it does not.
FaultContents == {<<TextSection>>, <<BadYaml>>, Directory}

\* A directory with such entries, and an empty store.
InitFaults ==
    /\ fs \in UNION {[S -> FaultContents] : S \in SUBSET Paths}
    /\ db = EmptyDb
    /\ last = NoCall
    /\ ix = IdleIx
    /\ pre = EmptyDb
    /\ fresh = {}
    /\ options = [withImages |-> FALSE]
    /\ processing = {}
    /\ passes = {}
    /\ events = <<>>
    /\ call = IdleCall

\* Index runs over that directory, every remote call answering; between runs
\* an entry is replaced.
NextFaults ==
    \/ \E rebuild \in BOOLEAN, target \in Paths \cup {AllFiles} :
          IndexStart(rebuild, FALSE, target)
    \/ EmbedDone("ok")
    \/ PersistDoc
    \/ IndexExit
    \/ \E p \in Paths, bytes \in FaultContents : WriteFile(p, bytes)

SpecFaults == InitFaults /\ [][NextFaults]_vars

-----------------------------------------------------------------------------
(* commands/watch *)

NeverProcessing(p) == FALSE

\* if (processing.has(absolutePath)) return;
AlreadyProcessing(p) == p \in processing

\* finally { processing.delete(absolutePath); }
Finally(S, p) == S \ {p}

\* Slides that suspended invocations are still to insert.
RECURSIVE PendingSlides(_)
PendingSlides(ps) ==
    IF ps = {} THEN 0
    ELSE LET pass == CHOOSE q \in ps : TRUE
         IN  Len(pass.doc.slides) + PendingSlides(ps \ {pass})

\* upsertFile and the texts of the slides, up to await gemini.embedBatch(texts)
UpsertAndSuspend(pass) ==
    LET up == upsertFile(db, [path |-> pass.path, hash |-> pass.hash,
                              title |-> pass.doc.title])
    IN  /\ db' = up.db
        /\ passes' = passes \cup {[pass EXCEPT !.pc = "embed", !.fileId = up.id]}

\* A watcher event is delivered: indexFile(relativePath, eventType) runs up
\* to its first await, or to its end.
Deliver ==
    /\ events # <<>>
    /\ events' = Tail(events)
    /\ LET path == Head(events).path
           eventType == Head(events).type
       IN  IF AlreadyProcessing(path)
           THEN UNCHANGED <<db, processing, passes>>
           ELSE
             IF eventType = "unlink"
             THEN /\ db' = deleteFileByPath(db, path).db
                  /\ processing' = Finally(processing \cup {path}, path)
                  /\ UNCHANGED passes
             ELSE IF path \notin DOMAIN fs
             THEN /\ processing' = Finally(processing \cup {path}, path)
                  /\ UNCHANGED <<db, passes>>
             ELSE
               LET hash == computeFileHash(fs[path])
                   existing == getFileByPath(db, path)
                   doc == parseMarkdownContent(fs[path])
                   imgs == IF options.withImages THEN DocImages(doc) ELSE {}
                   pass == [path |-> path, pc |-> "describe", hash |-> hash, doc |-> doc,
                            allImages |-> [k \in imgs |-> ""], fileId |-> -1]
               IN  IF existing # {} /\ \A f \in existing : f.hash = hash
                   THEN /\ processing' = Finally(processing \cup {path}, path)
                        /\ UNCHANGED <<db, passes>>
                   ELSE IF ParseThrows(fs[path])
                   THEN /\ processing' = Finally(processing \cup {path}, path)
                        /\ UNCHANGED <<db, passes>>
                   ELSE IF Len(doc.slides) = 0
                   THEN /\ processing' = Finally(processing \cup {path}, path)
                        /\ UNCHANGED <<db, passes>>
                   ELSE /\ db.slideSeq + PendingSlides(passes) + Len(doc.slides) <= MaxSlideSeq
                        /\ existing # {} \/ db.fileSeq < MaxFileSeq
                        /\ processing' = processing \cup {path}
                        /\ IF imgs # {}
                           THEN /\ passes' = passes \cup {pass}
                                /\ UNCHANGED db
                           ELSE UpsertAndSuspend(pass)
    /\ UNCHANGED <<fs, last, call, indexVars, options>>

\* describeImages resolves (a failed description is ""); the handler goes
\* on to upsertFile and suspends at embedBatch.
DescribeResume(suspended, desc) ==
    /\ suspended \in passes
    /\ suspended.pc = "describe"
    /\ LET pass == [suspended EXCEPT !.allImages = [k \in DOMAIN @ |-> desc]]
           up == upsertFile(db, [path |-> pass.path, hash |-> pass.hash,
                                 title |-> pass.doc.title])
       IN  /\ db' = up.db
           /\ passes' = (passes \ {suspended}) \cup
                          {[pass EXCEPT !.pc = "embed", !.fileId = up.id]}
    /\ UNCHANGED <<fs, last, call, indexVars, options, processing, events>>

\* embedBatch resolves: the slides are inserted with their vectors; an insert
\* that throws is caught; finally the path leaves the in-flight set.
EmbedResume(pass, outcome) ==
    /\ pass \in passes
    /\ pass.pc = "embed"
    /\ LET texts == [k \in 1..Len(pass.doc.slides) |->
                       CombinedText(pass.doc.slides[k], pass.allImages)]
           embeddings == EmbedResponse(texts, outcome)
           r == InsertSlides(db, pass.fileId,
                             [doc |-> pass.doc, imageDescriptions |-> pass.allImages],
                             embeddings, 1)
       IN  /\ db' = r.db
           /\ processing' = Finally(processing, pass.path)
           /\ passes' = passes \ {pass}
    /\ UNCHANGED <<fs, last, call, indexVars, options, events>>

\* embedBatch rejects: caught, and finally the path leaves the in-flight set.
EmbedReject(pass) ==
    /\ pass \in passes
    /\ pass.pc = "embed"
    /\ processing' = Finally(processing, pass.path)
    /\ passes' = passes \ {pass}
    /\ UNCHANGED <<fs, db, last, call, indexVars, options, events>>

\* A file of the watched directory is written; chokidar reports add or change.
WatchWrite(p, bytes) ==
    /\ Len(events) < MaxEvents
    /\ IF p \in DOMAIN fs THEN fs[p] # bytes ELSE TRUE
    /\ fs' = [q \in DOMAIN fs \cup {p} |-> IF q = p THEN bytes ELSE fs[q]]
    /\ events' = Append(events, [path |-> p,
                                 type |-> IF p \in DOMAIN fs THEN "change" ELSE "add"])
    /\ UNCHANGED <<db, last, call, indexVars, options, processing, passes>>

\* A file of the watched directory is removed; chokidar reports unlink.
WatchUnlink(p) ==
    /\ Len(events) < MaxEvents
    /\ p \in DOMAIN fs
    /\ fs' = [q \in DOMAIN fs \ {p} |-> fs[q]]
    /\ events' = Append(events, [path |-> p, type |-> "unlink"])
    /\ UNCHANGED <<db, last, call, indexVars, options, processing, passes>>

\* watchCommand starts with --with-images on a directory with ignoreInitial:
\* nothing is stored yet.
InitWatch ==
    /\ fs = <<>>
    /\ db = EmptyDb
    /\ last = NoCall
    /\ ix = IdleIx
    /\ pre = EmptyDb
    /\ fresh = {}
    /\ options = [withImages |-> TRUE]
    /\ processing = {}
    /\ passes = {}
    /\ events = <<>>
    /\ call = IdleCall

Environment ==
    \/ \E p \in Paths, bytes \in Contents : WatchWrite(p, bytes)
    \/ \E p \in Paths : WatchUnlink(p)

NextWatch ==
    \/ Environment
    \/ Deliver
    \/ \E pass \in passes : DescribeResume(pass, Description)
    \/ \E pass \in passes, outcome \in {"ok", "dimension"} : EmbedResume(pass, outcome)
    \/ \E pass \in passes : EmbedReject(pass)

SpecWatch == InitWatch /\ [][NextWatch]_vars

\* The same with every remote call succeeding.
NextWatchOk ==
    \/ Environment
    \/ Deliver
    \/ \E pass \in passes : DescribeResume(pass, Description)
    \/ \E pass \in passes : EmbedResume(pass, "ok")

SpecWatchOk == InitWatch /\ [][NextWatchOk]_vars

-----------------------------------------------------------------------------
(* The store called directly, as tests/database.test.ts does *)

Call(op, path, ok, ret, id) ==
    [op |-> op, path |-> path, ok |-> ok, ret |-> ret, id |-> id, arg |-> Num(0),
     file |-> NoFile, query |-> NoVector, rows |-> <<>>, before |-> db]

DbUpsertFile(path, bytes) ==
    /\ getFileByPath(db, path) # {} \/ db.fileSeq < MaxFileSeq
    /\ LET file == [path |-> path, hash |-> computeFileHash(bytes),
                    title |-> parseMarkdownContent(bytes).title]
           r == upsertFile(db, file)
       IN  /\ db' = r.db
           /\ last' = [Call("upsertFile", path, TRUE, TRUE, r.id) EXCEPT !.file = file]
    /\ UNCHANGED <<fs, ix, pre, fresh, watchVars, call>>

DbInsertSlideWithEmbedding(fileId, slideIndex, content, dim) ==
    /\ db.slideSeq < MaxSlideSeq
    /\ LET r == insertSlideWithEmbedding(db,
                   [fileId |-> fileId, slideIndex |-> slideIndex, content |-> content,
                    imageDescriptions |-> ""],
                   Vector(content, dim))
       IN  /\ db' = r.db
           /\ last' = Call("insertSlideWithEmbedding", "", r.ok, r.ok, r.id)
    /\ UNCHANGED <<fs, ix, pre, fresh, watchVars, call>>

\* insertEmbedding called with any number as the slide id
DbInsertEmbedding(slideId) ==
    /\ LET r == insertEmbedding(db, slideId, Vector(TextSection, EMBEDDING_DIMENSIONS))
       IN  /\ db' = r.db
           /\ last' = [Call("insertEmbedding", "", r.ok, r.ok, -1) EXCEPT !.arg = slideId]
    /\ UNCHANGED <<fs, ix, pre, fresh, watchVars, call>>

DbDeleteFileByPath(path) ==
    /\ LET r == deleteFileByPath(db, path)
       IN  /\ db' = r.db
           /\ last' = Call("deleteFileByPath", path, TRUE, r.ret, -1)
    /\ UNCHANGED <<fs, ix, pre, fresh, watchVars, call>>

DbClear ==
    /\ db' = clear(db)
    /\ last' = Call("clear", "", TRUE, TRUE, -1)
    /\ UNCHANGED <<fs, ix, pre, fresh, watchVars, call>>

\* Numbers a caller can pass as a slide id: -1, -0.5, 1, 1.5, 2, 2.5 and NaN.
SlideIdArgs ==
    {[kind |-> "finite", whole |-> w, frac |-> f] : w \in {1, 2}, f \in {0, 5}}
        \cup {Num(-1), [kind |-> "finite", whole |-> 0 - 1, frac |-> 5], NaN}

NextDb ==
    \/ \E path \in Paths, bytes \in {<<TextSection>>, <<ImageSection, Blank, TextSection>>} :
          DbUpsertFile(path, bytes)
    \/ \E fileId \in 1..MaxFileSeq, slideIndex \in 0..1,
          dim \in {EMBEDDING_DIMENSIONS, MODEL_DIMENSIONS} :
          DbInsertSlideWithEmbedding(fileId, slideIndex, TextSection, dim)
    \/ \E slideId \in SlideIdArgs : DbInsertEmbedding(slideId)
    \/ \E path \in Paths : DbDeleteFileByPath(path)
    \/ DbClear

SpecDb == InitDb /\ [][NextDb]_vars

-----------------------------------------------------------------------------
(* GeminiClient.embedBatch, called on its own *)

\* The lengths of the lists embedBatch is called with: none, one, a full
\* chunk, one more than a full chunk, and so on up to MaxChunks chunks.
TextCounts ==
    {c * EMBEDDING_BATCH_SIZE + r :
        c \in 0..(MaxChunks - 1), r \in {0, 1, EMBEDDING_BATCH_SIZE}}

\* embedBatch(texts) is called: the chunks are cut and the first wave is issued.
\* The k-th text is the number k, so that every text is different.
EmbedBatchCall(n) ==
    /\ call.pc = "idle"
    /\ LET texts == [k \in 1..n |-> k]
           chunks == Chunks(texts, 0)
       IN  call' = [IdleCall EXCEPT
                    !.pc = IF chunks = <<>> THEN "resolved" ELSE "wave",
                    !.texts = texts, !.chunks = chunks,
                    !.pending = ParallelChunks(chunks, 0),
                    !.results = [k \in 1..n |-> NoVector]]
    /\ UNCHANGED <<fs, db, last, indexVars, watchVars>>

\* One request of the wave completes.  When it is the last one, Promise.all
\* resolves and the results are stored; then the call sleeps before the next
\* wave, or returns.
ChunkResponds(j) ==
    /\ call.pc = "wave"
    /\ j \in call.pending
    /\ LET arrived == Append(call.arrived, j)
       IN  IF call.pending # {j}
           THEN call' = [call EXCEPT !.pending = @ \ {j}, !.arrived = arrived]
           ELSE call' = [call EXCEPT
                   !.pending = {},
                   !.arrived = arrived,
                   !.results = StoreResults(@, call.chunks, call.i,
                                            PromiseAll(call.chunks, call.i, arrived)),
                   !.pc = IF call.i + PARALLEL_BATCHES < Len(call.chunks)
                          THEN "sleep" ELSE "resolved"]
    /\ UNCHANGED <<fs, db, last, indexVars, watchVars>>

\* One request of the wave fails: Promise.all rejects and so does embedBatch;
\* the results array is not returned.
ChunkFails(j) ==
    /\ call.pc = "wave"
    /\ j \in call.pending
    /\ call' = [call EXCEPT !.pc = "rejected", !.pending = @ \ {j}]
    /\ UNCHANGED <<fs, db, last, indexVars, watchVars>>

\* await sleep(100) ends: the next wave is issued.
SleepDone ==
    /\ call.pc = "sleep"
    /\ call' = [call EXCEPT
            !.pc = "wave",
            !.i = @ + PARALLEL_BATCHES,
            !.pending = ParallelChunks(call.chunks, call.i + PARALLEL_BATCHES),
            !.arrived = <<>>]
    /\ UNCHANGED <<fs, db, last, indexVars, watchVars>>

\* The caller has the result (or the rejection) and may call again.
EmbedBatchSettled ==
    /\ call.pc \in {"resolved", "rejected"}
    /\ call' = IdleCall
    /\ UNCHANGED <<fs, db, last, indexVars, watchVars>>

NextEmbed ==
    \/ \E n \in TextCounts : EmbedBatchCall(n)
    \/ \E j \in call.pending : ChunkResponds(j)
    \/ \E j \in call.pending : ChunkFails(j)
    \/ SleepDone
    \/ EmbedBatchSettled

SpecEmbed == InitDb /\ [][NextEmbed]_vars

-----------------------------------------------------------------------------
(* GeminiClient.describeImages, called on its own *)

OtherImage == "fig.png"

\* The lists describeImages is called with: up to MaxImages paths, repeats allowed.
ImageLists ==
    UNION {[1..n -> {Image, OtherImage}] : n \in 0..MaxImages}

\* describeImages(imagePaths) is called: describeImage of the first path is awaited.
DescribeImagesCall(imagePaths) ==
    /\ call.pc = "idle"
    /\ call' = [IdleCall EXCEPT
            !.pc = IF imagePaths = <<>> THEN "described" ELSE "describing",
            !.imagePaths = imagePaths]
    /\ UNCHANGED <<fs, db, last, indexVars, watchVars>>

\* describeImage(imagePaths[i]) resolves or throws; the entry is set and the
\* loop pauses before the next path, or the map is returned.
DescribeImageSettles(outcome) ==
    /\ call.pc = "describing"
    /\ LET imagePath == call.imagePaths[call.i + 1]
       IN  call' = [call EXCEPT
              !.descriptions = IF outcome = "ok"
                               THEN MapSet(@, imagePath, Description)
                               ELSE CatchSetsEmpty(@, imagePath),
              !.outcomes = Append(@, outcome),
              !.pc = IF call.i + 1 < Len(call.imagePaths) THEN "pause" ELSE "described"]
    /\ UNCHANGED <<fs, db, last, indexVars, watchVars>>

\* await sleep(500) ends: describeImage of the next path is awaited.
PauseDone ==
    /\ call.pc = "pause"
    /\ call' = [call EXCEPT !.pc = "describing", !.i = @ + 1]
    /\ UNCHANGED <<fs, db, last, indexVars, watchVars>>

\* The caller has the map and may call again.
DescribeImagesSettled ==
    /\ call.pc = "described"
    /\ call' = IdleCall
    /\ UNCHANGED <<fs, db, last, indexVars, watchVars>>

NextDescribe ==
    \/ \E imagePaths \in ImageLists : DescribeImagesCall(imagePaths)
    \/ \E outcome \in {"ok", "threw"} : DescribeImageSettles(outcome)
    \/ PauseDone
    \/ DescribeImagesSettled

SpecDescribe == InitDb /\ [][NextDescribe]_vars

-----------------------------------------------------------------------------
(* The store written, then queried *)

\* searchSimilar called with the embedding of a text and a limit
DbSearchSimilar(text, limit) ==
    /\ \E rows \in searchSimilar(db, Vector(text, EMBEDDING_DIMENSIONS), limit) :
          last' = [Call("searchSimilar", "", TRUE, TRUE, -1) EXCEPT
                      !.arg = Num(limit),
                      !.query = Vector(text, EMBEDDING_DIMENSIONS),
                      !.rows = rows]
    /\ UNCHANGED <<fs, db, ix, pre, fresh, watchVars, call>>

\* The limits a caller passes: parseInt of the --limit option.
Limits == {-1, 0, 1, 2}

\* getSlideByPathAndIndex called with a path fragment and a slide index
DbGetSlideByPathAndIndex(filePath, slideIndex) ==
    /\ \E row \in getSlideByPathAndIndex(db, filePath, slideIndex) :
          last' = [Call("getSlideByPathAndIndex", filePath, TRUE, row # <<>>, -1) EXCEPT
                      !.arg = Num(slideIndex),
                      !.rows = row]
    /\ UNCHANGED <<fs, db, ix, pre, fresh, watchVars, call>>

\* Paths spelled out as characters: x and d/x.
QueryPaths == {<<"x">>, <<"d", "/", "x">>}

\* Fragments a caller asks for: a stored path, a suffix of one, the same in
\* upper case, one with an underscore, and one that matches nothing.
Fragments == {<<"x">>, <<"/", "x">>, <<"X">>, <<"_", "x">>, <<"y">>}

\* The store filled through its methods and then queried.
NextQuery ==
    \/ \E path \in QueryPaths : DbUpsertFile(path, <<TextSection>>)
    \/ \E filePath \in Fragments, slideIndex \in 0..1 :
          DbGetSlideByPathAndIndex(filePath, slideIndex)
    \/ \E fileId \in 1..MaxFileSeq, slideIndex \in 0..1,
          content \in {TextSection, ImageSection},
          dim \in {EMBEDDING_DIMENSIONS, MODEL_DIMENSIONS} :
          DbInsertSlideWithEmbedding(fileId, slideIndex, content, dim)
    \/ \E path \in QueryPaths : DbDeleteFileByPath(path)
    \/ \E text \in {TextSection, QueryText}, limit \in Limits :
          DbSearchSimilar(text, limit)

SpecQuery == InitDb /\ [][NextQuery]_vars

-----------------------------------------------------------------------------
(* commands/search and commands/get, on text spelled out as characters *)

DigitChars == <<"0", "1", "2", "3", "4", "5", "6", "7", "8", "9">>

\* `${n}` for a non-negative integer
RECURSIVE NumberToString(_)
NumberToString(n) ==
    IF n < 10 THEN <<DigitChars[n + 1]>>
    ELSE NumberToString(n \div 10) \o <<DigitChars[(n % 10) + 1]>>

IsDigit(c) == \E v \in 1..10 : DigitChars[v] = c

\* parseInt(digits, 10) for a run of digits
RECURSIVE parseInt(_)
parseInt(digits) ==
    IF digits = <<>> THEN 0
    ELSE parseInt(SubSeq(digits, 1, Len(digits) - 1)) * 10
            + (CHOOSE v \in 0..9 : DigitChars[v + 1] = digits[Len(digits)])

IsSpace(c) == c \in {" ", "\t", "\n"}

IsLineTerminator(c) == c = "\n"

RECURSIVE TrimStart(_)
TrimStart(str) ==
    IF str # <<>> /\ IsSpace(Head(str)) THEN TrimStart(Tail(str)) ELSE str

RECURSIVE TrimEnd(_)
TrimEnd(str) ==
    IF str # <<>> /\ IsSpace(str[Len(str)])
    THEN TrimEnd(SubSeq(str, 1, Len(str) - 1)) ELSE str

\* String.prototype.trim
Trim(str) == TrimEnd(TrimStart(str))

\* rest matches \s*#(\d+)$ : the digits, or <<>> when it does not match
SlideNumberPart(rest) ==
    LET afterSpace == TrimStart(rest)
    IN  IF /\ Len(afterSpace) >= 2
           /\ Head(afterSpace) = "#"
           /\ \A i \in 2..Len(afterSpace) : IsDigit(afterSpace[i])
        THEN Tail(afterSpace) ELSE <<>>

\* fileSlide.match(/^(.+?)\s*#(\d+)$/): the two groups of the match with the
\* shortest first group, or <<>> when nothing matches.
MatchFileSlide(fileSlide) ==
    LET fits == {n \in 1..Len(fileSlide) :
                    /\ \A i \in 1..n : ~IsLineTerminator(fileSlide[i])
                    /\ SlideNumberPart(SubSeq(fileSlide, n + 1, Len(fileSlide))) # <<>>}
    IN  IF fits = {} THEN <<>>
        ELSE LET n == CHOOSE m \in fits : \A k \in fits : m <= k
             IN  <<SubSeq(fileSlide, 1, n),
                   SlideNumberPart(SubSeq(fileSlide, n + 1, Len(fileSlide)))>>

\* getCommand: what it can end with, the exit code and the slide it printed.
getCommand(d, fileSlide) ==
    LET match == MatchFileSlide(fileSlide)
    IN  IF match = <<>> THEN {[exit |-> 1, slide |-> <<>>]}
        ELSE LET filePath == Trim(match[1])
                 slideNumber == parseInt(match[2])
                 slideIndex == slideNumber - 1
             IN  IF slideIndex < 0 THEN {[exit |-> 1, slide |-> <<>>]}
                 ELSE {[exit |-> IF row = <<>> THEN 1 ELSE 0, slide |-> row] :
                         row \in getSlideByPathAndIndex(d, filePath, slideIndex)}

\* What search shows of one result: the file path and the slide number, as
\* a card (#slideIndex + 1) or as JSON (the slideIndex field).
Shown(result, format) ==
    [filePath |-> result.filePath,
     number |-> IF format = "json" THEN NumberToString(result.slideIndex)
                ELSE NumberToString(result.slideIndex + 1),
     slideId |-> result.slideId]

\* searchCommand: searchSimilar, the threshold filter, and the output.
SearchCommand(text, limit, threshold, format) ==
    /\ \E results \in searchSimilar(db, Vector(text, EMBEDDING_DIMENSIONS), limit) :
          LET AtLeast(r) == r.similarity >= threshold
              filtered == SelectSeq(results, AtLeast)
          IN  last' = [Call("search", format, TRUE, TRUE, -1) EXCEPT
                          !.rows = [i \in DOMAIN filtered |-> Shown(filtered[i], format)]]
    /\ UNCHANGED <<fs, db, ix, pre, fresh, watchVars, call>>

\* get called with "<path> #<n>" taken from the i-th result search showed
GetShown(i) ==
    /\ last.op = "search"
    /\ i \in DOMAIN last.rows
    /\ LET fileSlide == last.rows[i].filePath \o <<" ", "#">> \o last.rows[i].number
       IN  \E r \in getCommand(db, fileSlide) :
              last' = [Call("get", fileSlide, r.exit = 0, TRUE, last.rows[i].slideId)
                          EXCEPT !.rows = r.slide, !.query = [dim |-> 0, of |-> last.path]]
    /\ UNCHANGED <<fs, db, ix, pre, fresh, watchVars, call>>

\* get called with what the user typed
GetCommand(fileSlide) ==
    /\ \E r \in getCommand(db, fileSlide) :
          last' = [Call("get", fileSlide, r.exit = 0, FALSE, -1) EXCEPT !.rows = r.slide]
    /\ UNCHANGED <<fs, db, ix, pre, fresh, watchVars, call>>

\* Stored paths: x, d/x, and x with a leading blank.
LookupPaths == {<<"x">>, <<"d", "/", "x">>, <<" ", "x">>}

\* Typed arguments: slide number 0, no number, no path, a trailing word, and
\* two well-formed ones.
TypedFileSlides ==
    { <<"x", " ", "#", "0">>, <<"x">>, <<"#", "1">>, <<"x", " ", "#", "1", "x">>,
      <<"x", " ", "#", "1">>, <<"x", "#", "0", "2">> }

NextLookup ==
    \/ \E path \in LookupPaths : DbUpsertFile(path, <<TextSection>>)
    \/ \E fileId \in 1..MaxFileSeq, slideIndex \in 0..1, content \in {TextSection, ImageSection} :
          DbInsertSlideWithEmbedding(fileId, slideIndex, content, EMBEDDING_DIMENSIONS)
    \/ \E limit \in {1, 2}, threshold \in {0, 10}, format \in {"table", "json"} :
          SearchCommand(TextSection, limit, threshold, format)
    \/ \E i \in 1..2 : GetShown(i)
    \/ \E fileSlide \in TypedFileSlides : GetCommand(fileSlide)

SpecLookup == InitDb /\ [][NextLookup]_vars

-----------------------------------------------------------------------------
(* The parser called directly, as tests/parser.test.ts does *)

MaxSections == 4

\* Every document of up to MaxSections sections.
Documents == UNION {[1..n -> Sections \cup {BadYaml}] : n \in 0..MaxSections}

\* One file of any content, nothing stored.
InitParse ==
    /\ fs \in {[p \in {"x.md"} |-> bytes] : bytes \in Documents}
    /\ db = EmptyDb
    /\ last = NoCall
    /\ ix = IdleIx
    /\ pre = EmptyDb
    /\ fresh = {}
    /\ options = [withImages |-> FALSE]
    /\ processing = {}
    /\ passes = {}
    /\ events = <<>>
    /\ call = IdleCall

\* parseMarkdownFile(filePath): the document, or the YAML parser's exception
ParseMarkdownFile(filePath) ==
    /\ filePath \in DOMAIN fs
    /\ last.op = "none"
    /\ last' = [Call("parseMarkdownFile", filePath, ~ParseThrows(fs[filePath]), TRUE, -1)
                  EXCEPT !.rows = IF ParseThrows(fs[filePath]) THEN <<>>
                                  ELSE parseMarkdownContent(fs[filePath]).slides]
    /\ UNCHANGED <<fs, db, ix, pre, fresh, watchVars, call>>

NextParse == \E filePath \in Paths : ParseMarkdownFile(filePath)

SpecParse == InitParse /\ [][NextParse]_vars

\* The store written through upsertFile, insertSlideWithEmbedding,
\* deleteFileByPath and clear only.
NextCascade ==
    \/ \E path \in Paths, bytes \in {<<TextSection>>, <<ImageSection, Blank, TextSection>>} :
          DbUpsertFile(path, bytes)
    \/ \E fileId \in 1..MaxFileSeq, slideIndex \in 0..1,
          dim \in {EMBEDDING_DIMENSIONS, MODEL_DIMENSIONS} :
          DbInsertSlideWithEmbedding(fileId, slideIndex, TextSection, dim)
    \/ \E path \in Paths : DbDeleteFileByPath(path)
    \/ DbClear

SpecCascade == InitDb /\ [][NextCascade]_vars

\* insertSlide called on its own
DbInsertSlide(fileId, slideIndex, content) ==
    /\ db.slideSeq < MaxSlideSeq
    /\ LET r == insertSlide(db, [fileId |-> fileId, slideIndex |-> slideIndex,
                                 content |-> content, imageDescriptions |-> ""])
       IN  /\ db' = r.db
           /\ last' = Call("insertSlide", "", r.ok, r.ok, r.id)
    /\ UNCHANGED <<fs, ix, pre, fresh, watchVars, call>>

\* The store written through insertSlide, insertSlideWithEmbedding,
\* upsertFile, deleteFileByPath and clear.
NextIds ==
    \/ \E path \in Paths : DbUpsertFile(path, <<TextSection>>)
    \/ \E fileId \in 1..MaxFileSeq, slideIndex \in 0..1 :
          DbInsertSlide(fileId, slideIndex, TextSection)
    \/ \E fileId \in 1..MaxFileSeq, slideIndex \in 0..1,
          dim \in {EMBEDDING_DIMENSIONS, MODEL_DIMENSIONS} :
          DbInsertSlideWithEmbedding(fileId, slideIndex, TextSection, dim)
    \/ \E path \in Paths : DbDeleteFileByPath(path)
    \/ DbClear

SpecIds == InitDb /\ [][NextIds]_vars

-----------------------------------------------------------------------------
(* What the store holds for a path *)

\* The rows of a path: its file rows, their slides, and those slides' vectors.
Rows(d, p) ==
    LET files == getFileByPath(d, p)
        slides == {s \in d.slides : \E f \in files : f.id = s.fileId}
    IN  [files |-> files, slides |-> slides,
         vectors |-> {e \in d.slide_embeddings : \E s \in slides : s.id = e.rowid}]

VectorsOf(d, s) == {e \in d.slide_embeddings : e.rowid = s.id}

\* The slides of a path as a reader sees them: index, content, number of vectors.
StoredSlides(d, p) ==
    {[slideIndex |-> s.slideIndex, content |-> s.content,
      vectors |-> Cardinality(VectorsOf(d, s))] : s \in Rows(d, p).slides}

\* The slides a content has, each with its one vector.
SlidesOfContent(bytes) ==
    IF ParseThrows(bytes) THEN {}
    ELSE LET doc == parseMarkdownContent(bytes)
         IN  {[slideIndex |-> doc.slides[k].index, content |-> doc.slides[k].content,
               vectors |-> 1] : k \in 1..Len(doc.slides)}

\* The store holds for p exactly the slide and vector set of bytes.
HoldsVersion(d, p, bytes) ==
    /\ StoredSlides(d, p) = SlidesOfContent(bytes)
    /\ Cardinality(Rows(d, p).slides) = Cardinality(SlidesOfContent(bytes))
    /\ Cardinality(Rows(d, p).vectors) = Cardinality(SlidesOfContent(bytes))

StoredHash(d, p) == {f.hash : f \in getFileByPath(d, p)}

\* every slide has exactly one vector and there is no other vector
OneVectorPerSlide(d) ==
    /\ Cardinality(d.slide_embeddings) = Cardinality(d.slides)
    /\ \A s \in d.slides : Cardinality(VectorsOf(d, s)) = 1

RunFiles == Range(ix.files) \cap DOMAIN fs

\* p was stored when the run began and its bytes differ from the stored hash
ChangedSinceIndexed(p) ==
    /\ StoredHash(pre, p) # {}
    /\ computeFileHash(fs[p]) \notin StoredHash(pre, p)

-----------------------------------------------------------------------------
(* C1: from a store in which every slide has exactly one vector, an index  *)
(* run that completes leaves as many vectors as slides and exactly one     *)
(* vector row for every stored slide id.                                   *)
C1_VectorsMatchSlides ==
    (ix.pc = "done" /\ OneVectorPerSlide(pre)) => OneVectorPerSlide(db)

C1_Witness ==
    /\ ix.pc = "done"
    /\ pre.slides # {}
    /\ OneVectorPerSlide(pre)
    /\ db.slides # {}
    /\ db.slides # pre.slides

C3_SecondRunNoMutation ==
    (ix.pc = "done" /\ ~ix.rebuild /\ Range(ix.files) \subseteq fresh) =>
        /\ ix.fileDataList = <<>>
        /\ db = pre
        /\ getStats(db) = getStats(pre)

C3_Witness ==
    /\ ix.pc = "done"
    /\ ~ix.rebuild
    /\ Range(ix.files) \subseteq fresh
    /\ Len(ix.files) = 2
    /\ ix.skippedFiles # {}
    /\ db.slides # {}

(* C4: a document of a run is skipped (not parsed, no entry for embedding  *)
(* and persisting) iff a record was stored for its path, the stored hash   *)
(* equals the hash of the file's bytes and rebuild was not requested;      *)
(* every other document is handed to the parser.                           *)
C4_SkipIffUnchanged ==
    ix.pc # "idle" =>
        \A p \in RunFiles :
            /\ p \in ix.skippedFiles <=>
                  /\ StoredHash(pre, p) = {computeFileHash(fs[p])}
                  /\ ~ix.rebuild
            /\ p \in ix.parsed <=> p \notin ix.skippedFiles
            /\ p \in ix.skippedFiles =>
                  ~ \E i \in 1..Len(ix.fileDataList) : ix.fileDataList[i].relativePath = p

C4_Witness ==
    /\ ix.pc = "phase3"
    /\ ~ix.rebuild
    /\ ix.skippedFiles # {}
    /\ \E p \in ix.parsed : StoredHash(pre, p) # {}

\* The documents of the run persisted before the i-th one.
PersistedBefore(i) == {ix.fileDataList[j].relativePath : j \in 1..(i - 1)}

\* The documents whose persistence step has started.
PersistStarted ==
    PersistedBefore(ix.fileIndex) \cup
        (IF ix.threw THEN {ix.fileDataList[ix.fileIndex].relativePath} ELSE {})

(* C6 as stated: when a run is aborted, every document whose persistence   *)
(* step had not started holds exactly the rows it held before the run, and *)
(* every document whose persistence step ran holds its complete new set.   *)
C6_AbortKeepsPreRunState ==
    ix.pc = "aborted" =>
        /\ \A p \in Paths \ PersistStarted : Rows(db, p) = Rows(pre, p)
        /\ \A p \in PersistedBefore(ix.fileIndex) : HoldsVersion(db, p, fs[p])


-----------------------------------------------------------------------------
NoRows == [files |-> {}, slides |-> {}, vectors |-> {}]

(* C5: deleteFileByPath on a stored path removes the file row, its slides  *)
(* and those slides' vectors, returns true and leaves the rows of every    *)
(* other path as they were; on a path that is not stored it returns false  *)
(* and the store is unchanged.                                             *)
C5_DeleteCascadesAndFrames ==
    last.op = "deleteFileByPath" =>
        LET was == Rows(last.before, last.path)
        IN  IF was.files # {}
            THEN /\ last.ret
                 /\ Rows(db, last.path) = NoRows
                 /\ db.files = last.before.files \ was.files
                 /\ db.slides = last.before.slides \ was.slides
                 /\ db.slide_embeddings = last.before.slide_embeddings \ was.vectors
                 /\ \A s \in was.slides : VectorsOf(db, s) = {}
                 /\ \A q \in Paths \ {last.path} : Rows(db, q) = Rows(last.before, q)
            ELSE /\ ~last.ret
                 /\ db = last.before

C5_Witness ==
    /\ last.op = "deleteFileByPath"
    /\ last.ret
    /\ Rows(last.before, last.path).vectors # {}
    /\ \E q \in Paths \ {last.path} : Rows(db, q).vectors # {}

(* C10 as stated: after insertSlideWithEmbedding returns or throws, the    *)
(* slide row and its vector row both exist or neither does.                *)
C10_SlideAndVectorOrNeither ==
    last.op = "insertSlideWithEmbedding" =>
        LET newSlides == db.slides \ last.before.slides
            newVectors == db.slide_embeddings \ last.before.slide_embeddings
        IN  \/ newSlides = {} /\ newVectors = {}
            \/ /\ Cardinality(newSlides) = 1
               /\ Cardinality(newVectors) = 1
               /\ \A s \in newSlides : VectorsOf(db, s) = newVectors

(* C11: insertEmbedding called with a slide id that is not an integer or   *)
(* is negative throws and leaves the store as it was: no vector row is     *)
(* written under a truncated or coerced rowid.                             *)
C11_InvalidSlideIdRejected ==
    (last.op = "insertEmbedding" /\ (~NumberIsInteger(last.arg) \/ last.arg.whole < 0)) =>
        /\ ~last.ok
        /\ db = last.before

\* Rejected ids whose truncation names a stored slide that has no vector yet:
\* a fractional one and a negative one.
C11_Witness ==
    /\ last.op = "insertEmbedding"
    /\ ~last.ok
    /\ ~NumberIsInteger(last.arg) \/ last.arg.whole < 0
    /\ \E s \in db.slides :
          /\ s.id = (IF last.arg.whole < 0 THEN 0 - last.arg.whole ELSE last.arg.whole)
          /\ VectorsOf(db, s) = {}

(* C12: there is at most one document row per path; after upsertFile the   *)
(* path has exactly one row, with the hash and title just given and the    *)
(* returned id; on a path already stored the id is the existing one, the   *)
(* document is left with no slides and no vectors, and the rows of every   *)
(* other path, their slides and vectors included, are as they were.        *)
C12_UpsertOneRowPerPath ==
    /\ \A p \in Paths : Cardinality(getFileByPath(db, p)) <= 1
    /\ last.op = "upsertFile" =>
          /\ getFileByPath(db, last.path) =
                {[id |-> last.id, path |-> last.path,
                  hash |-> last.file.hash, title |-> last.file.title]}
          /\ \A f \in getFileByPath(last.before, last.path) : f.id = last.id
          /\ Rows(db, last.path).slides = {}
          /\ Rows(db, last.path).vectors = {}
          /\ \A s \in Rows(last.before, last.path).slides : VectorsOf(db, s) = {}
          /\ \A q \in Paths \ {last.path} : Rows(db, q) = Rows(last.before, q)

\* upsertFile on a stored path that had slides with vectors, with a new hash,
\* while another document has slides with vectors.
C12_Witness ==
    /\ last.op = "upsertFile"
    /\ Rows(last.before, last.path).vectors # {}
    /\ \E f \in getFileByPath(last.before, last.path) : f.hash # last.file.hash
    /\ \E q \in Paths \ {last.path} : Rows(db, q).vectors # {}

\* The slides that have a vector, as the join of searchSimilar sees them.
SlidesWithVector(d) == {sl \in d.slides : VectorsOf(d, sl) # {}}

\* The distance of a stored slide to the query of the last call (tenths).
DistanceOfSlide(d, sl) ==
    LET e == CHOOSE v \in VectorsOf(d, sl) : TRUE
    IN  vec_distance_cosine(e.embedding, last.query)

(* C13 as stated: searchSimilar(q, limit) returns exactly min(limit, number *)
(* of slides that have a vector) results, ordered by non-increasing        *)
(* similarity = 1 - distance, and no slide left out is strictly closer to  *)
(* q than a returned one.                                                  *)
C13_SearchReturnsNearestLimit ==
    last.op = "searchSimilar" =>
        LET n == Cardinality(SlidesWithVector(db))
            limit == last.arg.whole
            returned == {last.rows[i].slideId : i \in DOMAIN last.rows}
        IN  /\ Len(last.rows) = (IF limit < n THEN limit ELSE n)
            /\ \A i, j \in DOMAIN last.rows :
                  i < j => last.rows[i].similarity >= last.rows[j].similarity
            /\ \A sl \in SlidesWithVector(db) :
                  /\ sl.id \in returned =>
                        \E i \in DOMAIN last.rows :
                           /\ last.rows[i].slideId = sl.id
                           /\ last.rows[i].similarity = 10 - DistanceOfSlide(db, sl)
                  /\ sl.id \notin returned =>
                        \A i \in DOMAIN last.rows :
                           10 - DistanceOfSlide(db, sl) <= last.rows[i].similarity

(* C14: for every length of texts, lists longer than one chunk of 250      *)
(* included, and every order in which the concurrently issued requests     *)
(* complete, embedBatch resolves to exactly texts.length vectors and       *)
(* result[i] is the embedding the provider returned for texts[i].          *)
C14_ResultsInInputOrder ==
    call.pc = "resolved" =>
        /\ Len(call.results) = Len(call.texts)
        /\ \A x \in DOMAIN call.texts :
              call.results[x] = Vector(call.texts[x], EMBEDDING_DIMENSIONS)

\* A call with three chunks, the last one short, whose requests completed in
\* the reverse of the order of issue.
C14_Witness ==
    /\ call.pc = "resolved"
    /\ Len(call.texts) = 2 * EMBEDDING_BATCH_SIZE + 1
    /\ call.arrived = <<3, 2, 1>>

\* The last position of imagePath in the list given to describeImages.
LastCallFor(imagePath) ==
    CHOOSE k \in DOMAIN call.imagePaths :
        /\ call.imagePaths[k] = imagePath
        /\ \A m \in DOMAIN call.imagePaths : call.imagePaths[m] = imagePath => m <= k

(* C15: describeImages does not reject when describing an image fails: it  *)
(* goes through every path of the list and resolves to a map with an entry *)
(* for every input path, the empty string for a path whose description     *)
(* call threw (the last one, when the list repeats the path) and the       *)
(* description for every other path, those after a failure included.       *)
C15_EntryForEveryPath ==
    /\ call.pc \in {"idle", "describing", "pause", "described"}
    /\ call.pc = "described" =>
          /\ Len(call.outcomes) = Len(call.imagePaths)
          /\ DOMAIN call.descriptions = Range(call.imagePaths)
          /\ \A imagePath \in Range(call.imagePaths) :
                call.descriptions[imagePath] =
                    (IF call.outcomes[LastCallFor(imagePath)] = "threw"
                     THEN "" ELSE Description)

\* The first description threw and a different path after it was described.
C15_Witness ==
    /\ call.pc = "described"
    /\ call.imagePaths = <<Image, OtherImage>>
    /\ call.outcomes = <<"threw", "ok">>
    /\ call.descriptions[Image] = ""
    /\ call.descriptions[OtherImage] = Description

\* The store as phase 1 of the current run found it.
StoreAtStart == IF ix.rebuild THEN clear(pre) ELSE pre

(* C16: when embedBatch rejects because a chunk's request failed, the      *)
(* index run ends there: no embeddings were returned, and no upsertFile    *)
(* and no slide or vector insertion was made for any document of the run.  *)
C16_EmbedFailureEndsRun ==
    ix.rejected =>
        /\ ix.pc = "aborted"
        /\ ix.embeddings = <<>>
        /\ db = StoreAtStart

\* embedBatch rejected in a run over two documents to persist, one of them
\* stored before with other content.
C16_Witness ==
    /\ ix.rejected
    /\ Len(ix.fileDataList) = 2
    /\ \E i \in 1..2 : Rows(db, ix.fileDataList[i].relativePath).slides # {}

(* C17 as stated: in a run with image description enabled the list handed  *)
(* to describeImages holds each absolute image path at most once, also     *)
(* when slides of different documents of the run reference the same image. *)
C17_EachImageListedOnce ==
    ix.pc = "phase2" =>
        \A i, j \in DOMAIN ix.allImagePaths :
            i # j => ix.allImagePaths[i] # ix.allImagePaths[j]

\* The slides of all processed documents of the run.
RunSlides ==
    {ik \in (1..Len(ix.fileDataList)) \X (1..MaxSlideSeq) :
        ik[2] <= Len(ix.fileDataList[ik[1]].doc.slides)}

(* C18: in a completed index run the one embedBatch call was given exactly *)
(* one text per slide of every processed document, and every slide is      *)
(* stored with the vector returned for its own combined text, the entry of *)
(* its (document, slideIndex) pair, not with that of another slide.        *)
C18_SlideStoredWithOwnVector ==
    ix.pc = "done" =>
        /\ Len(ix.slideTextEntries) = Cardinality(RunSlides)
        /\ Len(ix.embeddings) = Len(ix.slideTextEntries)
        /\ \A ik \in RunSlides :
              LET fd == ix.fileDataList[ik[1]]
                  slide == fd.doc.slides[ik[2]]
                  text == CombinedText(slide, fd.imageDescriptions)
                  entries == {e \in DOMAIN ix.slideTextEntries :
                                /\ ix.slideTextEntries[e].fileIndex = ik[1]
                                /\ ix.slideTextEntries[e].slideIndex = slide.index}
                  stored == {sl \in Rows(db, fd.relativePath).slides :
                                sl.slideIndex = slide.index}
              IN  /\ Cardinality(entries) = 1
                  /\ \A e \in entries : ix.slideTextEntries[e].text = text
                  /\ Cardinality(stored) = 1
                  /\ \A sl \in stored :
                        VectorsOf(db, sl) =
                           {[rowid |-> sl.id,
                             embedding |-> Vector(text, EMBEDDING_DIMENSIONS)]}

\* A completed run over two documents, one of them with two slides of
\* different texts.
C18_Witness ==
    /\ ix.pc = "done"
    /\ Len(ix.fileDataList) = 2
    /\ Cardinality(RunSlides) = 3
    /\ Cardinality({ix.slideTextEntries[e].text : e \in DOMAIN ix.slideTextEntries}) >= 2

\* Handling p in phase 1 fails: reading it or parsing it throws.
HandlingFails(p) == HashThrows(p) \/ ParseThrows(fs[p])

\* The run ended in phase 1, before anything was collected.
AbortedInPhase1 == ix.pc = "aborted" /\ ix.fileDataList = <<>> /\ ix.parsed = {}

(* C19 as stated: when handling a document fails in phase 1, the run is    *)
(* not aborted, the document's path keeps the rows it had, and every other *)
(* document of the run is still handled and, when the run completes, holds *)
(* its current version.                                                    *)
C19_FailedDocumentIsSkipped ==
    \A p \in Range(ix.files) :
        (ix.pc # "idle" /\ HandlingFails(p)) =>
            /\ ~AbortedInPhase1
            /\ Rows(db, p) = Rows(pre, p)
            /\ \A q \in Range(ix.files) \ {p} :
                  ~HandlingFails(q) => q \in ix.parsed \cup ix.skippedFiles
            /\ ix.pc = "done" =>
                  \A q \in Range(ix.files) \ {p} :
                     (~HandlingFails(q) /\ SlidesOfContent(fs[q]) # {}) =>
                        HoldsVersion(db, q, fs[q])

\* str ends with the characters of fragment.
EndsWith(str, fragment) ==
    /\ Len(fragment) <= Len(str)
    /\ SubSeq(str, Len(str) - Len(fragment) + 1, Len(str)) = fragment

(* C20 as stated: getSlideByPathAndIndex(fragment, i) returns a slide with *)
(* index i of the document whose path equals fragment when there is one;   *)
(* otherwise a slide with index i of a document whose path ends with       *)
(* fragment; and null exactly when no document whose path equals or ends   *)
(* with fragment has a slide with index i.                                 *)
C20_ExactThenSuffixOrNull ==
    last.op = "getSlideByPathAndIndex" =>
        LET atIndex == SlidesAtIndex(db, last.arg.whole)
            exact == {r.slide : r \in {q \in atIndex : q.file_path = last.path}}
            suffix == {r.slide : r \in {q \in atIndex : EndsWith(q.file_path, last.path)}}
        IN  /\ exact # {} => (last.rows # <<>> /\ last.rows[1] \in exact)
            /\ (exact = {} /\ suffix # {}) => (last.rows # <<>> /\ last.rows[1] \in suffix)
            /\ last.rows = <<>> <=> suffix = {}

(* C7 as stated: nothing observes a document with its record updated but   *)
(* its slides missing or partly inserted: while a watch handler for a path *)
(* is suspended, a record that carries the handler's new hash has all the  *)
(* slides of the handler's document, each with its vector.                 *)
C7_NoRecordWithoutSlides ==
    \A pass \in passes :
        StoredHash(db, pass.path) = {pass.hash} =>
            /\ Cardinality(Rows(db, pass.path).slides) = Len(pass.doc.slides)
            /\ Cardinality(Rows(db, pass.path).vectors) = Len(pass.doc.slides)

(* C8: at most one indexing pass per path is in flight, and the in-flight  *)
(* set holds exactly the paths whose pass is suspended: every way a pass   *)
(* ends (success, early return, thrown error) has removed its path.        *)
C8_OnePassPerPath ==
    /\ processing = {pass.path : pass \in passes}
    /\ \A a, b \in passes : a.path = b.path => a = b

\* An event for a path was delivered while its pass was in flight (the file
\* was written after the pass read it and no event is pending) and a pass
\* for the other path runs beside it.
C8_Witness ==
    /\ events = <<>>
    /\ Cardinality(passes) = 2
    /\ \E pass \in passes :
          /\ pass.path \in DOMAIN fs
          /\ computeFileHash(fs[pass.path]) # pass.hash

\* The store reflects the file at p.
Reflects(p) ==
    IF p \in DOMAIN fs
    THEN SlidesOfContent(fs[p]) # {} =>
            /\ StoredHash(db, p) = {computeFileHash(fs[p])}
            /\ HoldsVersion(db, p, fs[p])
    ELSE Rows(db, p) = NoRows

(* C9 as stated: with every remote call succeeding, once every event has   *)
(* been handled and no pass is in flight, the store reflects each file's   *)
(* final state: the hash and slides of its final content if it exists with *)
(* at least one slide, no record, slide or vector if it was deleted.       *)
C9_QuiescentStoreReflectsFiles ==
    (events = <<>> /\ passes = {}) => \A p \in Paths : Reflects(p)

\* A vector whose rowid is the id of no stored slide.
OrphanVectors(d) == {e \in d.slide_embeddings : ~ \E s \in d.slides : s.id = e.rowid}

\* The store after a document and one slide with its vector are inserted.
InsertedAgain(d) ==
    LET r == upsertFile(d, [path |-> "x.md", hash |-> computeFileHash(<<TextSection>>),
                            title |-> parseMarkdownContent(<<TextSection>>).title])
    IN  insertSlideWithEmbedding(r.db,
            [fileId |-> r.id, slideIndex |-> 0, content |-> TextSection,
             imageDescriptions |-> ""],
            Vector(TextSection, EMBEDDING_DIMENSIONS))

(* C21: after clear() the store holds no document, no slide and no vector, *)
(* whatever it held before (vectors without a slide included), and a       *)
(* document and a slide with its vector can be inserted again.             *)
C21_ClearEmptiesAndStaysUsable ==
    last.op = "clear" =>
        /\ getStats(db) = [totalFiles |-> 0, totalSlides |-> 0, totalEmbeddings |-> 0]
        /\ InsertedAgain(db).ok
        /\ getStats(InsertedAgain(db).db) =
              [totalFiles |-> 1, totalSlides |-> 1, totalEmbeddings |-> 1]

\* clear was called on a store with a document, a slide with its vector and
\* a vector that belongs to no slide.
C21_Witness ==
    /\ last.op = "clear"
    /\ last.before.files # {}
    /\ \E s \in last.before.slides : VectorsOf(last.before, s) # {}
    /\ OrphanVectors(last.before) # {}

(* C22: when an index run with rebuild=true completes, the store holds,    *)
(* for every enumerated document that parsed to at least one slide, its    *)
(* record with the content's hash and the full slide and vector set of the *)
(* content, and nothing else: no row of any other path, no slide from      *)
(* before the run and no vector without a slide, also when the run targets *)
(* a single file.                                                          *)
C22_RebuildLeavesExactlyTheRun ==
    (ix.pc = "done" /\ ix.rebuild) =>
        /\ \A p \in Paths :
              IF p \in RunFiles /\ SlidesOfContent(fs[p]) # {}
              THEN /\ StoredHash(db, p) = {computeFileHash(fs[p])}
                   /\ HoldsVersion(db, p, fs[p])
              ELSE Rows(db, p) = NoRows
        /\ \A f \in db.files : f.path \in Paths
        /\ \A s \in db.slides : s.id > pre.slideSeq /\ \E f \in db.files : f.id = s.fileId
        /\ OrphanVectors(db) = {}

\* A rebuild of a single file completed on a store that held another
\* document with its slides, and stored slides of the targeted file.
C22_Witness ==
    /\ ix.pc = "done"
    /\ ix.rebuild
    /\ Len(ix.files) = 1
    /\ \E p \in Paths \ Range(ix.files) : Rows(pre, p).slides # {}
    /\ db.slides # {}

(* C23 as stated: for every result the search command shows, get called    *)
(* with the shown file path and the shown slide number ("<path> #<n>")     *)
(* exits with 0 and prints the content of that same slide; get called with *)
(* slide number 0 or with a malformed argument exits non-zero and prints   *)
(* no slide.                                                               *)
C23_GetReturnsTheShownSlide ==
    last.op = "get" =>
        /\ last.ret =>
              /\ last.ok
              /\ Len(last.rows) = 1
              /\ last.rows[1].id = last.id
        /\ last.path \in { <<"x", " ", "#", "0">>, <<"x">>, <<"#", "1">>,
                           <<"x", " ", "#", "1", "x">> } =>
              ~last.ok /\ last.rows = <<>>

\* slides are the sections of bytes that are not blank, in their order.
InDocumentOrder(slides, bytes) ==
    \E pos \in [1..Len(slides) -> 1..Len(bytes)] :
        /\ \A i, j \in 1..Len(slides) : i < j => pos[i] < pos[j]
        /\ \A i \in 1..Len(slides) : slides[i].content = bytes[pos[i]]
        /\ \A k \in 1..Len(bytes) :
              (~ \E i \in 1..Len(slides) : pos[i] = k) => bytes[k] = Blank

(* C24: the slides parseMarkdownContent produces for a document are its    *)
(* non-blank sections in document order and carry the indices 0, 1, ...,   *)
(* n-1 in that order, so no two slides of one document share an index.     *)
C24_IndicesCountFromZero ==
    (last.op = "parseMarkdownFile" /\ last.ok) =>
        /\ InDocumentOrder(last.rows, fs[last.path])
        /\ \A i \in 1..Len(last.rows) : last.rows[i].index = i - 1
        /\ \A i, j \in 1..Len(last.rows) :
              last.rows[i].index = last.rows[j].index => i = j

\* A document with a blank section between two slides was parsed.
C24_Witness ==
    /\ last.op = "parseMarkdownFile"
    /\ last.ok
    /\ Len(last.rows) >= 2
    /\ \E k \in 2..(Len(fs[last.path]) - 1) :
          /\ fs[last.path][k] = Blank
          /\ fs[last.path][k - 1] # Blank
          /\ fs[last.path][k + 1] # Blank

\* The stores the last call went through, statement by statement.
StatementsOfLastCall ==
    CASE last.op = "upsertFile" -> upsertFileStatements(last.before, last.file)
      [] last.op = "deleteFileByPath" -> deleteFileByPathStatements(last.before, last.path)
      [] last.op = "clear" -> clearStatements(last.before)
      [] OTHER -> <<>>

(* C25: on every deletion path of the store (upsertFile on a stored path,  *)
(* deleteFileByPath, clear) no vector of a slide is left at a moment when  *)
(* its slide row is already deleted, and after any sequence of upsertFile, *)
(* insertSlideWithEmbedding, deleteFileByPath and clear every vector's     *)
(* rowid is the id of a stored slide.                                      *)
C25_VectorsGoBeforeSlides ==
    /\ OrphanVectors(db) = {}
    /\ LET stores == StatementsOfLastCall
       IN  /\ stores # <<>> => stores[Len(stores)] = db
           /\ \A k \in 1..Len(stores) : OrphanVectors(stores[k]) = {}

\* A document with two slides and their vectors was replaced, deleted or
\* cleared away while another document was stored.
C25_Witness ==
    /\ last.op \in {"upsertFile", "deleteFileByPath", "clear"}
    /\ Cardinality(last.before.slide_embeddings) >= 2
    /\ Cardinality(db.slide_embeddings) < Cardinality(last.before.slide_embeddings)
    /\ Len(StatementsOfLastCall) >= 3

\* The requests in flight respect the chunk size and the wave.
WithinTheWave ==
    /\ \A j \in call.pending :
          /\ j \in 1..Len(call.chunks)
          /\ Len(call.chunks[j].texts) \in 1..EMBEDDING_BATCH_SIZE
          /\ call.i < j /\ j <= call.i + PARALLEL_BATCHES
    /\ Cardinality(call.pending) <= PARALLEL_BATCHES
    /\ call.pc = "sleep" =>
          /\ call.pending = {}
          /\ call.i + PARALLEL_BATCHES < Len(call.chunks)

\* Requests are issued when the call begins, or when the pause ends with no
\* request of the wave before still in flight.
IssuedAfterThePause ==
    (call'.pending \ call.pending # {}) =>
        \/ call.pc = "idle"
        \/ /\ call.pc = "sleep"
           /\ call.pending = {}
           /\ call'.i = call.i + PARALLEL_BATCHES

(* C26: during embedBatch every request carries at most 250 texts, at most *)
(* 3 requests are in flight, a request of the next wave is issued only     *)
(* when every request of the wave before has completed and the pause has   *)
(* elapsed, and the pause is taken only when another wave follows.         *)
C26_WavesOfThreeChunks == []WithinTheWave /\ [][IssuedAfterThePause]_vars

\* The second wave of a call with four chunks is in flight.
C26_Witness ==
    /\ call.pc = "wave"
    /\ call.i = PARALLEL_BATCHES
    /\ call.pending = {PARALLEL_BATCHES + 1}
    /\ Len(call.chunks[PARALLEL_BATCHES + 1].texts) = EMBEDDING_BATCH_SIZE

(* C27 as stated: whenever no run and no pass is in flight, a stored        *)
(* document record whose hash equals the hash of the file's current         *)
(* content has the full slide and vector set of that content stored, also  *)
(* after runs and passes that ended on an embedding or insertion error.     *)
C27_MatchingHashMeansIndexed ==
    (ix.pc = "idle" /\ passes = {}) =>
        \A p \in DOMAIN fs :
            StoredHash(db, p) = {computeFileHash(fs[p])} => HoldsVersion(db, p, fs[p])

\* p is a document the run has no reason to write: skipped as unchanged,
\* failing to parse, parsing to no slide, or not enumerated.
LeftAlone(p) ==
    IF p \notin Range(ix.files) THEN TRUE
    ELSE /\ p \in DOMAIN fs
         /\ \/ StoredHash(pre, p) = {computeFileHash(fs[p])}
            \/ ParseThrows(fs[p])
            \/ SlidesOfContent(fs[p]) = {}

(* C28: at every point of an index run with rebuild=false, the record,     *)
(* slides and vectors of each stored document that the run skips as        *)
(* unchanged, fails to parse, parses to zero slides or did not enumerate   *)
(* are the ones the store held when the run began.                         *)
C28_OtherDocumentsUntouched ==
    (ix.pc # "idle" /\ ~ix.rebuild) =>
        \A p \in Paths : LeftAlone(p) => Rows(db, p) = Rows(pre, p)

\* A run without rebuild completed and wrote one document, while a stored
\* document with slides no longer parsed.
C28_Witness ==
    /\ ix.pc = "done"
    /\ ~ix.rebuild
    /\ db # pre
    /\ \E p \in RunFiles : Rows(pre, p).slides # {} /\ ParseThrows(fs[p])

(* C29 as stated: when a document whose path is exactly the requested      *)
(* fragment is stored, getSlideByPathAndIndex(fragment, i) returns a slide *)
(* of that document or null, never a slide of another document, also when  *)
(* that document has no slide with index i.                                *)
C29_ExactDocumentOrNull ==
    (last.op = "getSlideByPathAndIndex" /\ getFileByPath(db, last.path) # {}) =>
        \A k \in 1..Len(last.rows) :
            \E f \in getFileByPath(db, last.path) : last.rows[k].fileId = f.id

(* C30: slide ids are never reused.  The AUTOINCREMENT sequence never goes *)
(* down, whatever is deleted; every id in the slides and vector tables has *)
(* been issued by it; and every slide a call inserts gets an id above the  *)
(* sequence as it stood before the call, hence an id that no earlier slide *)
(* had and a rowid that holds no vector.                                   *)
C30_SlideIdsNeverReused ==
    /\ \A s \in db.slides : s.id \in 1..db.slideSeq
    /\ \A e \in db.slide_embeddings : e.rowid \in 1..db.slideSeq
    /\ last.op # "none" =>
          /\ last.before.slideSeq <= db.slideSeq
          /\ \A s \in db.slides \ last.before.slides :
                /\ s.id > last.before.slideSeq
                /\ ~ \E e \in last.before.slide_embeddings : e.rowid = s.id

\* A slide was inserted with its vector into a store that had issued ids
\* before and had lost every slide since.
C30_Witness ==
    /\ last.op = "insertSlideWithEmbedding"
    /\ last.ok
    /\ last.before.slides = {}
    /\ last.before.slideSeq >= 2
    /\ last.id = last.before.slideSeq + 1

=============================================================================
